---- MODULE Spec2Model ----
(***************************************************************************)
(* Model of rpc/src/calls/block.rs (sawtooth-seth): the JSON-RPC block     *)
(* endpoints eth_getBlockByHash, eth_getBlockByNumber,                     *)
(* eth_getBlockTransactionCountByHash and                                  *)
(* eth_getBlockTransactionCountByNumber, with get_block_obj and            *)
(* get_block_transaction_count.  One request is followed from its entry    *)
(* point to its result; every ValidatorClient call is a step of its own,   *)
(* answered by the ledger with any outcome the client's signature allows.  *)
(*                                                                         *)
(* Strings are sequences of characters; a u64 is four 16-bit limbs, least  *)
(* significant first, so that 2^64 is exactly the carry out of limb 4.     *)
(***************************************************************************)
EXTENDS Integers, Sequences, FiniteSets, TLC

\* ---- bounds of the model ------------------------------------------------
MaxReceipts == 3
MaxBatches == 2
MaxBatchLen == 2

\* ---- strings ------------------------------------------------------------
Str0x == <<"0", "x">>

\* Bytes a character takes in UTF-8 ("e-acute" is a two-byte character).
Utf8Len(c) == IF c = "e-acute" THEN 2 ELSE 1

\* str::get(2..): the rest of the string from byte offset 2, or None when
\* the string has fewer than 2 bytes or offset 2 splits a character.
RECURSIVE StrFromByte(_, _)
StrFromByte(s, k) ==
    IF k = 0 THEN [some |-> TRUE, v |-> s]
    ELSE IF s = <<>> \/ Utf8Len(Head(s)) > k THEN [some |-> FALSE, v |-> <<>>]
    ELSE StrFromByte(Tail(s), k - Utf8Len(Head(s)))

StrGet2(s) == StrFromByte(s, 2)

StartsWith0x(s) == Len(s) >= 2 /\ SubSeq(s, 1, 2) = Str0x

\* ---- JSON values, results ------------------------------------------------
VNull == [t |-> "Null"]
VString(s) == [t |-> "String", v |-> s]
VArray(a) == [t |-> "Array", v |-> a]
VObject(m) == [t |-> "Object", v |-> m]

InternalError == [t |-> "InternalError"]
InvalidParams(msg) == [t |-> "InvalidParams", v |-> msg]

Ok(v) == [kind |-> "Ok", val |-> v]
Err(e) == [kind |-> "Err", val |-> e]
\* An arithmetic-overflow panic unwinds the handler: no Result is produced.
Panicked == [kind |-> "Panic", val |-> VNull]
NoResult == [kind |-> "None", val |-> VNull]

\* serde_json::Map::insert
MapInsert(m, k, v) == [x \in (DOMAIN m) \cup {k} |-> IF x = k THEN v ELSE m[x]]
EmptyMap == [x \in {} |-> VNull]

\* ---- numbers -------------------------------------------------------------
\* a + b + carry over limbs i.. ; the result has one limb more than a and b.
RECURSIVE AddCarry(_, _, _, _)
AddCarry(a, b, i, c) ==
    IF i > Len(a) THEN <<c>>
    ELSE LET s == a[i] + b[i] + c
         IN <<s % 65536>> \o AddCarry(a, b, i + 1, s \div 65536)

ZeroU64 == <<0, 0, 0, 0>>

\* u64 addition: the wrapped sum and whether it overflowed.
AddU64(a, b) ==
    LET s == AddCarry(a, b, 1, 0)
    IN [sum |-> SubSeq(s, 1, 4), overflow |-> s[5] = 1]

\* usize -> limbs (usize sums of the model stay far below 2^16).
RECURSIVE NatLimbs(_)
NatLimbs(n) == IF n < 65536 THEN <<n>> ELSE <<n % 65536>> \o NatLimbs(n \div 65536)

HexDigit(n) == <<"0","1","2","3","4","5","6","7","8","9","a","b","c","d","e","f">>[n + 1]

LimbHex(l) == << HexDigit(l \div 4096), HexDigit((l \div 256) % 16),
                 HexDigit((l \div 16) % 16), HexDigit(l % 16) >>

RECURSIVE LimbsHex(_)
LimbsHex(ls) == IF ls = <<>> THEN <<>> ELSE LimbsHex(Tail(ls)) \o LimbHex(Head(ls))

RECURSIVE StripZeros(_)
StripZeros(ds) == IF Len(ds) > 1 /\ Head(ds) = "0" THEN StripZeros(Tail(ds)) ELSE ds

\* transform::num_to_hex: "0x" and the minimal lowercase hex digits.
num_to_hex(ls) == VString(Str0x \o StripZeros(LimbsHex(ls)))

\* transform::hex_prefix: "0x" and the identifier's own hex digits.
hex_prefix(s) == VString(Str0x \o s)

\* transform::zerobytes: "0x" and 2*n zero digits; "0x0" for n = 0.
zerobytes(n) ==
    IF n = 0 THEN VString(<<"0", "x", "0">>)
    ELSE VString(Str0x \o [i \in 1..(2 * n) |-> "0"])

\* transform::make_txn_obj_no_block: the object rendered from a transaction.
make_txn_obj_no_block(txn) == [t |-> "TxnObject", v |-> txn]

\* ---- block keys ----------------------------------------------------------
KeySignature(s) == [t |-> "Signature", v |-> s]
KeyNumber(n) == [t |-> "Number", v |-> n]
KeyLatest == [t |-> "Latest", v |-> <<>>]
TxnKeySignature(s) == [t |-> "Signature", v |-> s]

HexValue(c) ==
    CHOOSE n \in 0..15 : HexDigit(n) = c

IsHexDigit(c) == \E n \in 0..15 : HexDigit(n) = c

RECURSIVE HexParse(_, _)
HexParse(s, acc) == IF s = <<>> THEN acc ELSE HexParse(Tail(s), acc * 16 + HexValue(Head(s)))

\* BlockKey::from_str: a tag, or a "0x" hex height; anything else is malformed.
BlockKeyFromStr(s) ==
    IF s = <<"l","a","t","e","s","t">> THEN [ok |-> TRUE, key |-> KeyLatest]
    ELSE IF Len(s) > 2 /\ StartsWith0x(s)
            /\ \A i \in 3..Len(s) : IsHexDigit(s[i])
         THEN [ok |-> TRUE, key |-> KeyNumber(HexParse(SubSeq(s, 3, Len(s)), 0))]
         ELSE [ok |-> FALSE, key |-> KeyLatest]

\* ---- inputs --------------------------------------------------------------
SeqsUpTo(S, n) == UNION { [1..k -> S] : k \in 0..n }

Injective(s) == \A i, j \in DOMAIN s : s[i] = s[j] => i = j

\* Identifier strings a caller may pass to the hash-form endpoints.
HashStrings == { <<"0","x","a","b">>, <<"a","b","c","d">>, <<"a">>, <<"a","e-acute">> }
\* Strings a caller may pass to the number-form endpoints.
NumStrings == { <<"l","a","t","e","s","t">>, <<"0","x","5">>, <<"z","z">> }

\* Params after params.parse(): ok = FALSE when the shape is wrong.
BadParams == [ok |-> FALSE, id |-> <<>>, full |-> FALSE]
BlockParams(ids) == { [ok |-> TRUE, id |-> s, full |-> f] : s \in ids, f \in BOOLEAN } \cup {BadParams}
CountParams(ids) == { [ok |-> TRUE, id |-> s, full |-> FALSE] : s \in ids } \cup {BadParams}

\* Transaction ids (header signatures), in the order the block lists them.
TxnList == << <<"a","1">>, <<"b","2">>, <<"c","3">> >>
TxnIds == { TxnList[i] : i \in DOMAIN TxnList }
GasValues == { <<21000, 0, 0, 0>>, <<50000, 0, 0, 0>>, <<65535, 65535, 65535, 65535>> }

RECURSIVE Flatten(_)
Flatten(bs) == IF bs = <<>> THEN <<>> ELSE Head(bs) \o Flatten(Tail(bs))

\* Batch lists of a block: its first n transactions, split into batches in
\* every way (empty batches included).
BatchLists == { bs \in SeqsUpTo(SeqsUpTo(TxnIds, MaxBatchLen), MaxBatches) :
                  \E n \in 0..Len(TxnList) : Flatten(bs) = SubSeq(TxnList, 1, n) }

TheHeader == [block_num |-> <<5, 0, 0, 0>>, previous_block_id |-> <<"9","9">>,
              state_root_hash |-> <<"7","7">>]
\* Header bytes: the encoding of a BlockHeader, or bytes protobuf rejects.
HeaderBytes == { [valid |-> TRUE, hdr |-> TheHeader], [valid |-> FALSE, hdr |-> TheHeader] }

Blocks == { [header |-> h, header_signature |-> <<"a","b">>, batches |-> bs] :
              h \in HeaderBytes, bs \in BatchLists }
NoBlock == [header |-> [valid |-> FALSE, hdr |-> TheHeader], header_signature |-> <<>>, batches |-> <<>>]

\* What get_receipts_from_block(b) may return: receipts keyed by transaction
\* id, for transactions of the block, in the order the mapping iterates them.
Range(f) == { f[i] : i \in DOMAIN f }
ReceiptLists(b) ==
    { r \in SeqsUpTo([txn_id : Range(Flatten(b.batches)), gas_used : GasValues], MaxReceipts) :
        Injective([i \in DOMAIN r |-> r[i].txn_id]) }

\* protobuf::parse_from_bytes
ParseHeader(bytes) == [ok |-> bytes.valid, hdr |-> bytes.hdr]

VARIABLES pc, method, params, block_key, full, block, receipts, idx,
          transactions, gas, bob, result, calls, overflow_checks

vars == <<pc, method, params, block_key, full, block, receipts, idx,
          transactions, gas, bob, result, calls, overflow_checks>>

Init ==
    /\ pc = "idle"
    /\ method = "none"
    /\ params = BadParams
    /\ block_key = KeyLatest
    /\ full = FALSE
    /\ block = NoBlock
    /\ receipts = <<>>
    /\ idx = 0
    /\ transactions = <<>>
    /\ gas = ZeroU64
    /\ bob = EmptyMap
    /\ result = NoResult
    /\ calls = <<>>
    /\ overflow_checks \in BOOLEAN

\* ---- the ledger (ValidatorClient) ------------------------------------------
\* ClientError: NoResource, or any other failure.
ClientErrors == {"NoResource", "ValidatorError"}

GetBlockResponses ==
    { [ok |-> TRUE, block |-> b, error |-> "none"] : b \in Blocks } \cup
    { [ok |-> FALSE, block |-> NoBlock, error |-> e] : e \in ClientErrors }

ReceiptResponses(b) ==
    { [ok |-> TRUE, receipts |-> r] : r \in ReceiptLists(b) } \cup
    { [ok |-> FALSE, receipts |-> <<>>] }

\* get_transaction_and_block(Signature(id)): the transaction signed id, or a failure.
TxnResponses(id) ==
    { [ok |-> TRUE, txn |-> [header_signature |-> id]],
      [ok |-> FALSE, txn |-> [header_signature |-> <<>>]] }

\* One entry of the log of ledger calls: out is "Ok" or the failure.
Call(fn, arg, out) == [fn |-> fn, arg |-> arg, out |-> out]
Outcome(r) == IF r.ok THEN "Ok" ELSE "Err"

\* ---- request entry points --------------------------------------------------
Finish(r) ==
    /\ pc' = "done"
    /\ result' = r

Enter(label, key, f) ==
    /\ pc' = label
    /\ block_key' = key
    /\ full' = f
    /\ result' = result

\* The hash-form endpoints' check of the identifier (lines 94-99, 151-156).
StripHashPrefix(id) == StrGet2(id)

get_block_by_hash ==
    /\ pc = "idle"
    /\ \E p \in BlockParams(HashStrings) :
        /\ method' = "eth_getBlockByHash"
        /\ params' = p
        /\ IF ~p.ok
           THEN Finish(Err(InvalidParams("Takes [blockHash: DATA(64), full: BOOL]")))
                /\ UNCHANGED <<block_key, full>>
           ELSE LET bh == StripHashPrefix(p.id)
                IN IF ~bh.some
                   THEN Finish(Err(InvalidParams("Invalid block hash, must have 0x")))
                        /\ UNCHANGED <<block_key, full>>
                   ELSE Enter("obj_get_block", KeySignature(bh.v), p.full)
    /\ UNCHANGED <<block, receipts, idx, transactions, gas, bob, calls, overflow_checks>>

get_block_by_number ==
    /\ pc = "idle"
    /\ \E p \in BlockParams(NumStrings) :
        /\ method' = "eth_getBlockByNumber"
        /\ params' = p
        /\ IF ~p.ok
           THEN Finish(Err(InvalidParams("Takes [blockNum: QUANTITY|TAG, full: BOOL]")))
                /\ UNCHANGED <<block_key, full>>
           ELSE LET k == BlockKeyFromStr(p.id)
                IN IF ~k.ok
                   THEN Finish(Err(InvalidParams("Invalid block number")))
                        /\ UNCHANGED <<block_key, full>>
                   ELSE Enter("obj_get_block", k.key, p.full)
    /\ UNCHANGED <<block, receipts, idx, transactions, gas, bob, calls, overflow_checks>>

get_block_transaction_count_by_hash ==
    /\ pc = "idle"
    /\ \E p \in CountParams(HashStrings) :
        /\ method' = "eth_getBlockTransactionCountByHash"
        /\ params' = p
        /\ IF ~p.ok
           THEN Finish(Err(InvalidParams("Takes [blockHash: DATA(64)]")))
                /\ UNCHANGED <<block_key, full>>
           ELSE LET bh == StripHashPrefix(p.id)
                IN IF ~bh.some
                   THEN Finish(Err(InvalidParams("Invalid block hash, must have 0x")))
                        /\ UNCHANGED <<block_key, full>>
                   ELSE Enter("count_get_block", KeySignature(bh.v), FALSE)
    /\ UNCHANGED <<block, receipts, idx, transactions, gas, bob, calls, overflow_checks>>

get_block_transaction_count_by_number ==
    /\ pc = "idle"
    /\ \E p \in CountParams(NumStrings) :
        /\ method' = "eth_getBlockTransactionCountByNumber"
        /\ params' = p
        /\ IF ~p.ok
           THEN Finish(Err(InvalidParams("Takes [blockNum: QUANTITY|TAG]")))
                /\ UNCHANGED <<block_key, full>>
           ELSE LET k == BlockKeyFromStr(p.id)
                IN IF ~k.ok
                   THEN Finish(Err(InvalidParams("Invalid block number")))
                        /\ UNCHANGED <<block_key, full>>
                   ELSE Enter("count_get_block", k.key, FALSE)
    /\ UNCHANGED <<block, receipts, idx, transactions, gas, bob, calls, overflow_checks>>

\* ---- get_block_obj --------------------------------------------------------
\* The match on a failed client.get_block (lines 201-209).
ObjGetBlockErrAlwaysFault(error) == Err(InternalError)
ObjGetBlockErr(error) ==
    IF error = "NoResource" THEN Ok(VNull) ELSE Err(InternalError)

\* The fields taken from the block and its header (lines 220-236).
HeaderFields(b, hdr) ==
    LET m1 == MapInsert(EmptyMap, "number", num_to_hex(hdr.block_num))
        m2 == MapInsert(m1, "hash", hex_prefix(b.header_signature))
        m3 == MapInsert(m2, "parentHash", hex_prefix(hdr.previous_block_id))
    IN MapInsert(m3, "stateRoot", hex_prefix(hdr.state_root_hash))

\* client.get_block, the header decode and the header fields (lines 199-236).
ObjGetBlock ==
    /\ pc = "obj_get_block"
    /\ \E r \in GetBlockResponses :
        /\ calls' = Append(calls, Call("get_block", block_key, IF r.ok THEN "Ok" ELSE r.error))
        /\ IF ~r.ok
           THEN Finish(ObjGetBlockErr(r.error)) /\ UNCHANGED <<block, bob>>
           ELSE /\ block' = r.block
                /\ LET h == ParseHeader(r.block.header)
                   IN IF ~h.ok
                      THEN Finish(Err(InternalError)) /\ bob' = bob
                      ELSE /\ bob' = HeaderFields(r.block, h.hdr)
                           /\ pc' = "obj_get_receipts"
                           /\ result' = result
    /\ UNCHANGED <<method, params, block_key, full, receipts, idx, transactions,
                   gas, overflow_checks>>

\* client.get_receipts_from_block and the loop's initial state (lines 238-247).
ObjGetReceipts ==
    /\ pc = "obj_get_receipts"
    /\ \E r \in ReceiptResponses(block) :
        /\ calls' = Append(calls, Call("get_receipts_from_block", block, Outcome(r)))
        /\ IF ~r.ok
           THEN Finish(Err(InternalError)) /\ UNCHANGED <<receipts, idx, transactions, gas>>
           ELSE /\ receipts' = r.receipts
                /\ transactions' = <<>>
                /\ gas' = ZeroU64
                /\ idx' = 1
                /\ pc' = "obj_loop"
                /\ result' = result
    /\ UNCHANGED <<method, params, block_key, full, block, bob, overflow_checks>>

\* Whether an iteration looks the transaction up (line 249).
NeedsLookupAlways(f) == TRUE
NeedsLookup(f) == f

\* The result when get_transaction_and_block fails (lines 253-256).
TxnLookupFailedPartial ==
    Ok(VObject(MapInsert(bob, "transactions", VArray(transactions))))
TxnLookupFailed == Err(InternalError)

\* Vec::push (lines 258, 260).
PushFront(vec, x) == <<x>> \o vec
Push(vec, x) == Append(vec, x)

\* The entry of the summary list (line 260).
SummaryEntry(txn_id) == hex_prefix(txn_id)

\* gas += receipt.gas_used (line 262): a build with overflow checks panics
\* when the u64 sum overflows, a build without them wraps.
AddGasAssign(g, used) == [sum |-> used, overflow |-> FALSE]
AddGas(g, used) == AddU64(g, used)

\* The end of one iteration, once the entry x is known (lines 258-262).
LoopStep(x, used) ==
    LET a == AddGas(gas, used)
    IN /\ transactions' = Push(transactions, x)
       /\ IF a.overflow /\ overflow_checks
          THEN Finish(Panicked) /\ UNCHANGED <<gas, idx>>
          ELSE /\ gas' = a.sum
               /\ idx' = idx + 1
               /\ pc' = pc
               /\ result' = result

\* One iteration of the loop over the receipts (lines 248-263).
ObjLoop ==
    /\ pc = "obj_loop"
    /\ idx <= Len(receipts)
    /\ LET e == receipts[idx]
       IN IF NeedsLookup(full)
          THEN \E r \in TxnResponses(e.txn_id) :
                /\ calls' = Append(calls, Call("get_transaction_and_block",
                                               TxnKeySignature(e.txn_id), Outcome(r)))
                /\ IF ~r.ok
                   THEN Finish(TxnLookupFailed) /\ UNCHANGED <<transactions, gas, idx>>
                   ELSE LoopStep(make_txn_obj_no_block(r.txn), e.gas_used)
          ELSE /\ calls' = calls
               /\ LoopStep(SummaryEntry(e.txn_id), e.gas_used)
    /\ UNCHANGED <<method, params, block_key, full, block, receipts, bob, overflow_checks>>

\* The fields Sawtooth has no counterpart for (lines 267-279).
PlaceholdersMinerAsHash(m) ==
    LET m1 == MapInsert(m, "nonce", zerobytes(8))
        m2 == MapInsert(m1, "sha3Uncles", zerobytes(32))
        m3 == MapInsert(m2, "logsBloom", zerobytes(256))
        m4 == MapInsert(m3, "transactionsRoot", zerobytes(32))
        m5 == MapInsert(m4, "receiptsRoot", zerobytes(32))
        m6 == MapInsert(m5, "miner", zerobytes(32))
        m7 == MapInsert(m6, "difficulty", zerobytes(0))
        m8 == MapInsert(m7, "totalDifficulty", zerobytes(0))
        m9 == MapInsert(m8, "extraData", zerobytes(0))
        m10 == MapInsert(m9, "size", zerobytes(0))
        m11 == MapInsert(m10, "gasLimit", zerobytes(0))
    IN MapInsert(m11, "uncles", VArray(<<>>))

Placeholders(m) ==
    LET m1 == MapInsert(m, "nonce", zerobytes(8))
        m2 == MapInsert(m1, "sha3Uncles", zerobytes(32))
        m3 == MapInsert(m2, "logsBloom", zerobytes(256))
        m4 == MapInsert(m3, "transactionsRoot", zerobytes(32))
        m5 == MapInsert(m4, "receiptsRoot", zerobytes(32))
        m6 == MapInsert(m5, "miner", zerobytes(20))
        m7 == MapInsert(m6, "difficulty", zerobytes(0))
        m8 == MapInsert(m7, "totalDifficulty", zerobytes(0))
        m9 == MapInsert(m8, "extraData", zerobytes(0))
        m10 == MapInsert(m9, "size", zerobytes(0))
        m11 == MapInsert(m10, "gasLimit", zerobytes(0))
    IN MapInsert(m11, "uncles", VArray(<<>>))

\* After the loop: the aggregate fields, the placeholders, the result (lines 264-281).
ObjFinish ==
    /\ pc = "obj_loop"
    /\ idx > Len(receipts)
    /\ LET m1 == MapInsert(bob, "transactions", VArray(transactions))
           m2 == MapInsert(m1, "gasUsed", num_to_hex(gas))
       IN /\ bob' = Placeholders(m2)
          /\ Finish(Ok(VObject(bob')))
    /\ UNCHANGED <<method, params, block_key, full, block, receipts, idx,
                   transactions, gas, calls, overflow_checks>>

\* ---- get_block_transaction_count -------------------------------------------
\* The match on a failed client.get_block (lines 294-302).
CountGetBlockErr(error) ==
    IF error = "NoResource" THEN Ok(VNull) ELSE Err(InternalError)

\* The fold over the batches (lines 306-309).
CountFoldBatches(acc, batches) == acc + Len(batches)

RECURSIVE CountFold(_, _)
CountFold(acc, batches) ==
    IF batches = <<>> THEN acc
    ELSE CountFold(acc + Len(Head(batches)), Tail(batches))

\* The ledger calls get_block_transaction_count makes (line 292).
CountCallsBoth(key, out) ==
    <<Call("get_block", key, out), Call("get_receipts_from_block", key, "Ok")>>
CountCalls(key, out) == <<Call("get_block", key, out)>>

\* get_block_transaction_count (lines 292-310).
CountGetBlock ==
    /\ pc = "count_get_block"
    /\ \E r \in GetBlockResponses :
        /\ calls' = calls \o CountCalls(block_key, IF r.ok THEN "Ok" ELSE r.error)
        /\ IF ~r.ok
           THEN Finish(CountGetBlockErr(r.error)) /\ block' = block
           ELSE /\ block' = r.block
                /\ Finish(Ok(num_to_hex(NatLimbs(CountFold(0, r.block.batches)))))
    /\ UNCHANGED <<method, params, block_key, full, receipts, idx, transactions,
                   gas, bob, overflow_checks>>

Next ==
    \/ get_block_by_hash
    \/ get_block_by_number
    \/ get_block_transaction_count_by_hash
    \/ get_block_transaction_count_by_number
    \/ ObjGetBlock
    \/ ObjGetReceipts
    \/ ObjLoop
    \/ ObjFinish
    \/ CountGetBlock

Spec == Init /\ [][Next]_vars

\* ---- properties -----------------------------------------------------------
IsRender == method \in {"eth_getBlockByHash", "eth_getBlockByNumber"}
IsCount == method \in {"eth_getBlockTransactionCountByHash",
                       "eth_getBlockTransactionCountByNumber"}
IsHashForm == method \in {"eth_getBlockByHash", "eth_getBlockTransactionCountByHash"}
Done == pc = "done"
IsNull(r) == r.kind = "Ok" /\ r.val.t = "Null"
IsInternalError(r) == r.kind = "Err" /\ r.val.t = "InternalError"
IsParameterError(r) == r.kind = "Err" /\ r.val.t = "InvalidParams"
IsBlockView(r) == r.kind = "Ok" /\ r.val.t = "Object"
\* get_block was called and answered with out.
Looked(out) == calls # <<>> /\ calls[1].fn = "get_block" /\ calls[1].out = out

\* C1: once get_block_obj or get_block_transaction_count has finished, its
\* result is Ok(null) exactly when get_block answered NoResource: not-found is
\* never an error, and an existing block never gives null.
C1_NotFoundIsNull ==
    (Done /\ calls # <<>>) =>
        /\ Looked("NoResource") => IsNull(result)
        /\ IsNull(result) => Looked("NoResource")

C1_Witness ==
    /\ Done /\ IsRender /\ full
    /\ block_key.t = "Number"
    /\ Looked("NoResource")
    /\ IsNull(result)

\* C2: a hash-form identifier that does not begin with "0x" ends the request
\* with a parameter error and no ledger call is made.
C2_NoPrefixIsParameterError ==
    (IsHashForm /\ params.ok /\ ~StartsWith0x(params.id)) =>
        /\ calls = <<>>
        /\ Done => IsParameterError(result)

\* A backend step of the current get_block_obj call has failed: a lookup
\* failed for a reason other than not-found, or the header did not decode.
BackendFailed ==
    \/ \E i \in DOMAIN calls : calls[i].out \notin {"Ok", "NoResource"}
    \/ Looked("Ok") /\ ~ParseHeader(block.header).ok

\* C3: get_block_obj is all-or-nothing: when any backend step failed, the
\* result is an internal error, never null and never a (partial) BlockView.
C3_AllOrNothing ==
    (Done /\ IsRender /\ BackendFailed) => IsInternalError(result)

\* The lookup of the middle one of three transactions failed.
C3_Witness ==
    /\ Done /\ IsRender /\ full
    /\ Len(receipts) = 3
    /\ Len(calls) = 4
    /\ calls[4].out = "Err"
    /\ Len(transactions) = 1
    /\ IsInternalError(result)

\* C4: a BlockView's transactions list has one entry per receipt, in the
\* receipts' order: the "0x"-prefixed id in summary mode, the object rendered
\* from the transaction looked up by that id in full mode.
C4_TransactionsFollowReceipts ==
    (Done /\ IsRender /\ IsBlockView(result)) =>
        LET tx == result.val.v["transactions"]
        IN /\ tx.t = "Array"
           /\ Len(tx.v) = Len(receipts)
           /\ \A i \in DOMAIN receipts :
                IF full
                THEN /\ calls[2 + i].arg = TxnKeySignature(receipts[i].txn_id)
                     /\ tx.v[i].t = "TxnObject"
                     /\ tx.v[i].v.header_signature = receipts[i].txn_id
                ELSE /\ tx.v[i].t = "String"
                     /\ tx.v[i].v = <<"0", "x">> \o receipts[i].txn_id

\* Three receipts, iterated in an order that is not the block's.
C4_Witness ==
    /\ Done /\ IsRender /\ full /\ IsBlockView(result)
    /\ Len(receipts) = 3
    /\ receipts[1].txn_id = TxnList[3]
    /\ receipts[3].txn_id = TxnList[2]

\* ---- exact arithmetic, for stating the gas claims ---------------------------
Pad(a, n) == a \o [i \in 1..(n - Len(a)) |-> 0]

\* The sum of two naturals given as limbs of any length.
BigAdd(a, b) ==
    LET n == IF Len(a) > Len(b) THEN Len(a) ELSE Len(b)
    IN AddCarry(Pad(a, n), Pad(b, n), 1, 0)

\* The arithmetic sum of gas_used over a receipt list.
RECURSIVE ExactGasSum(_)
ExactGasSum(rs) ==
    IF rs = <<>> THEN <<0>> ELSE BigAdd(Head(rs).gas_used, ExactGasSum(Tail(rs)))

FitsU64(n) == \A i \in DOMAIN n : i > 4 => n[i] = 0
Low64(n) == SubSeq(Pad(n, 4), 1, 4)
GasList(rs) == [i \in DOMAIN rs |-> rs[i].gas_used]
ExampleGas == << <<21000, 0, 0, 0>>, <<50000, 0, 0, 0>> >>
GasUsedOf(r) == r.val.v["gasUsed"]

\* C5 (as stated): gasUsed is the hex encoding of the exact sum of the
\* receipts' gas, never wrapped modulo 2^64, and receipts of 21000 and 50000
\* give "0xb2e8".
C5_GasUsedExactSum ==
    (Done /\ IsRender /\ IsBlockView(result)) =>
        /\ GasUsedOf(result) = num_to_hex(ExactGasSum(receipts))
        /\ GasList(receipts) = ExampleGas =>
             GasUsedOf(result) = VString(<<"0", "x", "b", "2", "e", "8">>)

\* C5 (amended): gasUsed is the hex encoding of the sum of the receipts' gas
\* reduced modulo 2^64, which is the exact sum whenever that sum is at most
\* 2^64 - 1 (receipts of 21000 and 50000 give 71000 = "0x11558"); when the sum
\* exceeds 2^64 - 1, a build with overflow checks panics and returns no
\* BlockView, and a panic happens in no other case.
C5_GasUsedWrappedSum ==
    /\ (Done /\ IsRender /\ IsBlockView(result)) =>
        /\ GasUsedOf(result) = num_to_hex(Low64(ExactGasSum(receipts)))
        /\ FitsU64(ExactGasSum(receipts)) =>
             GasUsedOf(result) = num_to_hex(ExactGasSum(receipts))
        /\ GasList(receipts) = ExampleGas =>
             GasUsedOf(result) = VString(<<"0", "x", "1", "1", "5", "5", "8">>)
        /\ receipts = <<>> => GasUsedOf(result) = VString(<<"0", "x", "0">>)
        /\ overflow_checks => FitsU64(ExactGasSum(receipts))
    /\ (Done /\ result.kind = "Panic") =>
        /\ overflow_checks
        /\ ~FitsU64(ExactGasSum(receipts))

\* A build without overflow checks returned a BlockView for receipts whose
\* gas sums to more than 2^64 - 1.
C5_Witness ==
    /\ Done /\ IsRender /\ IsBlockView(result)
    /\ ~overflow_checks
    /\ Len(receipts) = 3
    /\ ~FitsU64(ExactGasSum(receipts))
    /\ GasUsedOf(result) = num_to_hex(Low64(ExactGasSum(receipts)))

\* C6: for an existing block, get_block_transaction_count returns the hex
\* encoding of the block's number of transactions, however they are split
\* into batches: "0x3" for [[t1,t2],[t3]], "0x0" without transactions.
C6_CountIsTotal ==
    (Done /\ IsCount /\ Looked("Ok")) =>
        LET total == Len(Flatten(block.batches))
        IN /\ result = Ok(num_to_hex(NatLimbs(total)))
           /\ total = 0 => result = Ok(VString(<<"0", "x", "0">>))
           /\ total = 3 => result = Ok(VString(<<"0", "x", "3">>))

C6_Witness ==
    /\ Done /\ IsCount /\ Looked("Ok")
    /\ block.batches = << <<TxnList[1], TxnList[2]>>, <<TxnList[3]>> >>
    /\ result = Ok(VString(<<"0", "x", "3">>))

BlockViewKeys ==
    { "number", "hash", "parentHash", "stateRoot", "transactions", "gasUsed",
      "nonce", "sha3Uncles", "logsBloom", "transactionsRoot", "receiptsRoot",
      "miner", "difficulty", "totalDifficulty", "extraData", "size", "gasLimit",
      "uncles" }

\* v is the string "0x" followed by 2*w zero digits.
IsZeroBytes(v, w) ==
    /\ v.t = "String"
    /\ Len(v.v) = 2 + 2 * w
    /\ v.v[1] = "0" /\ v.v[2] = "x"
    /\ \A i \in 3..Len(v.v) : v.v[i] = "0"

IsZeroScalar(v) == v.t = "String" /\ v.v = <<"0", "x", "0">>

\* C7: every BlockView has exactly the eighteen keys of the wire protocol,
\* and its protocol-only fields hold their fixed placeholders.
C7_FixedKeySet ==
    (Done /\ IsRender /\ IsBlockView(result)) =>
        LET o == result.val.v
        IN /\ DOMAIN o = BlockViewKeys
           /\ IsZeroBytes(o["nonce"], 8)
           /\ IsZeroBytes(o["sha3Uncles"], 32)
           /\ IsZeroBytes(o["logsBloom"], 256)
           /\ IsZeroBytes(o["transactionsRoot"], 32)
           /\ IsZeroBytes(o["receiptsRoot"], 32)
           /\ IsZeroBytes(o["miner"], 20)
           /\ \A k \in {"difficulty", "totalDifficulty", "extraData", "size", "gasLimit"} :
                IsZeroScalar(o[k])
           /\ o["uncles"].t = "Array" /\ o["uncles"].v = <<>>

C7_Witness ==
    /\ Done /\ IsRender /\ IsBlockView(result)
    /\ ~full
    /\ Len(receipts) = 2
    /\ Cardinality(DOMAIN result.val.v) = 18

\* C8: when the receipts returned for a block do not cover the block's
\* transactions, get_block_obj ends with an internal error.
C8_MissingReceiptIsFault ==
    (Done /\ IsRender /\ Len(calls) >= 2 /\ calls[2].out = "Ok"
          /\ Len(receipts) # Len(Flatten(block.batches)))
        => IsInternalError(result)

\* C9: the ledger calls of one get_block_obj are, in this order, one
\* get_block, one get_receipts_from_block and, in full mode only, one
\* get_transaction_and_block per receipt in receipt order; a call follows
\* only successful calls and a decodable header.
C9_CallSequence ==
    IsRender =>
        /\ \A i \in DOMAIN calls :
            /\ i = 1 => calls[i].fn = "get_block" /\ calls[i].arg = block_key
            /\ i = 2 => calls[i].fn = "get_receipts_from_block" /\ calls[i].arg = block
            /\ i > 2 => /\ full
                        /\ i - 2 <= Len(receipts)
                        /\ calls[i].fn = "get_transaction_and_block"
                        /\ calls[i].arg = TxnKeySignature(receipts[i - 2].txn_id)
            /\ i < Len(calls) => calls[i].out = "Ok"
        /\ Len(calls) > 1 => ParseHeader(block.header).ok
        /\ ~full => Len(calls) <= 2
        /\ (Done /\ IsBlockView(result)) =>
             Len(calls) = 2 + (IF full THEN Len(receipts) ELSE 0)

C9_Witness ==
    /\ Done /\ IsRender /\ full /\ IsBlockView(result)
    /\ Len(receipts) = 3
    /\ Len(calls) = 5

\* C10: get_block_transaction_count makes exactly one ledger call, the
\* get_block lookup, and its result is decided by that call's answer alone.
C10_CountCallsGetBlockOnly ==
    IsCount =>
        /\ Len(calls) <= 1
        /\ \A i \in DOMAIN calls : calls[i].fn = "get_block" /\ calls[i].arg = block_key
        /\ (Done /\ ~IsParameterError(result)) =>
             /\ Len(calls) = 1
             /\ Looked("Ok") => result.kind = "Ok" /\ result.val.t = "String"
             /\ Looked("NoResource") => IsNull(result)
             /\ Looked("ValidatorError") => IsInternalError(result)

C10_Witness ==
    /\ Done /\ IsCount
    /\ Len(calls) = 1
    /\ Looked("ValidatorError")
    /\ IsInternalError(result)

====
